---- MODULE Spec2Model ----
(***************************************************************************)
(* A state-machine model of executePipeline (the pipeline runner of the   *)
(* wercker command line tool): code fetch, environment setup, the user    *)
(* step loop, the store phase, build finalisation, the after-steps and    *)
(* the deferred calls that run on every exit path.                        *)
(***************************************************************************)
EXTENDS Integers, Sequences, FiniteSets, TLC

\* ------------------------------------------------------------------ bounds
MaxSteps == 2
MaxAfterSteps == 2

\* ------------------------------------------------------------- vocabulary
StepNames == <<"A", "B", "C", "D">>
StepDisplayNames == <<"A-display", "B-display", "C-display", "D-display">>
AfterStepNames == <<"Z1", "Z2", "Z3", "Z4">>
StepFailMessage == "oops"
ArtifactURL == "http://store/artifact.tar"
PushFailedMessage == "Unable to push to registry"
StoreFailedMessage == "Unable to store pipeline output"

VARIABLES
    pc,           \* position of executePipeline
    opts,         \* GlobalOptions: Debug, ShouldCommit, ShouldPush, ShouldArtifacts, ShouldRemove
    nSteps,       \* len(pipeline.Steps())
    nAfter,       \* len(pipeline.AfterSteps())
    events,       \* the event stream seen by the listeners of the emitter
    calls,        \* the calls made on the collaborators (runner, box, pipeline, artificer)
    defers,       \* the stack of deferred calls of executePipeline, last registered last
    buildDone,    \* the build finisher has already emitted
    boxCreated,   \* ctx.box != nil
    pr,           \* PipelineResult
    prAlloc,      \* pr has been constructed (line 214)
    stepCounter,  \* Counter.Current
    idx,          \* number of iterations of the running step loop that have begun
    sr,           \* StepResult of the store step
    storeOrder,   \* the order the store step finisher was created with
    storeErr,     \* the closure of the store phase returned an error
    sess,         \* ctx.sess: 0 none, otherwise the generation of the session
    newSess,      \* newCtx.sess
    boxGen,       \* generation of the running container: 0 none, +1 per start or restart
    exported,     \* the PipelineResult exported to the after-step session, when exported
    retval,       \* how executePipeline ended: running, nil, error, panic
    hOpts,        \* metrics handler: the options carried by the events it receives
    startStep,    \* metrics handler: h.startStep, SafeID -> time of BuildStepStarted
    now,          \* metrics handler: the clock read by time.Now(), in ticks
    keen,         \* metrics handler: the events added to keen, (collection, payload)
    hlog          \* metrics handler: the events delivered to it and how each call ended

metricsVars == <<hOpts, startStep, now, keen, hlog>>

runVars == <<pc, opts, nSteps, nAfter, events, calls, defers, buildDone, boxCreated,
             pr, prAlloc, stepCounter, idx, sr, storeOrder, storeErr, sess, newSess,
             boxGen, exported, retval>>

vars == <<pc, opts, nSteps, nAfter, events, calls, defers, buildDone, boxCreated,
          pr, prAlloc, stepCounter, idx, sr, storeOrder, storeErr, sess, newSess,
          boxGen, exported, retval, hOpts, startStep, now, keen, hlog>>

\* ---------------------------------------------------------------- helpers
Event(type, step, order, success, message, result) ==
    [type |-> type, step |-> step, order |-> order, success |-> success,
     message |-> message, result |-> result]

Call(op, ok, s) == [op |-> op, ok |-> ok, sess |-> s]

NoResult == [Success |-> FALSE, FailedStepName |-> "", FailedStepMessage |-> ""]

NoStepResult == [Success |-> FALSE, Message |-> "", PackageURL |-> "", ExitCode |-> 0]

Running == [kind |-> "running", msg |-> ""]
ReturnNil == [kind |-> "nil", msg |-> ""]
ReturnError(m) == [kind |-> "error", msg |-> m]
Panicked == [kind |-> "panic", msg |-> ""]

\* NewPipelineResult_Pessimistic: the result starts as failed.
NewPipelineResult_Pessimistic == [Success |-> FALSE, FailedStepName |-> "", FailedStepMessage |-> ""]

\* pr := &PipelineResult{Success: true, ...}
NewPipelineResult == [Success |-> TRUE, FailedStepName |-> "", FailedStepMessage |-> ""]

\* stepCounter := &Counter{Current: 3}
\* (NewCounter_FromOne: the counter does not skip "get code" and "setup environment")
NewCounter_FromOne == [Current |-> 1]
NewCounter == [Current |-> 3]

\* Counter.Increment: returns the current value and advances the counter.
Increment(c) == [value |-> c.Current, counter |-> [Current |-> c.Current + 1]]

\* sr := &StepResult{Success: false, ..., ExitCode: 1} of the store step
NewStoreStepResult == [Success |-> FALSE, Message |-> "", PackageURL |-> "", ExitCode |-> 1]

\* Runner.StartBuild: emits BuildStarted and hands out the build finisher.
StartBuildEvents == <<Event("BuildStarted", "", 0, FALSE, "", "")>>

\* Finisher.Finish of the build finisher: emits BuildFinished the first time
\* it is called, with "passed" or "failed", and nothing afterwards.
BuildFinishEvents(done, success) ==
    IF done THEN <<>>
    ELSE <<Event("BuildFinished", "", 0, FALSE, "", IF success THEN "passed" ELSE "failed")>>

\* Runner.StartStep: emits BuildStepStarted for the step and order.
StepStartedEvent(step, order) == Event("BuildStepStarted", step, order, FALSE, "", "")

\* Finisher.Finish of a step finisher: emits BuildStepFinished with the
\* success and message of the StepResult it is given.
StepFinishedEvent(step, order, r) ==
    Event("BuildStepFinished", step, order, r.Success, r.Message, "")

\* Runner.RunStep: BuildStepStarted, the execution, BuildStepFinished.
RunStepEvents(step, order, ok) ==
    <<StepStartedEvent(step, order),
      StepFinishedEvent(step, order,
          [Success |-> ok, Message |-> IF ok THEN "" ELSE StepFailMessage])>>

\* the error value of SoftExit.Exit in release mode
SoftExitError == ReturnError("Exiting.")

\* fmt.Errorf("Step failed: %s", name)
StepFailedError(name) == ReturnError("Step failed: " \o name)

\* the deferred box calls registered after SetupEnvironment, in registration order
\* (BoxDefers_CleanFirst: Stop deferred before Clean, so that Clean runs first)
BoxDefers_CleanFirst(o) == IF o.ShouldRemove THEN <<"stop", "clean">> ELSE <<"stop">>
BoxDefers(o) == IF o.ShouldRemove THEN <<"clean", "stop">> ELSE <<"stop">>

\* the condition under which the store phase is entered
\* (StoreEntered_Artifacts: ShouldArtifacts enters it whatever pr.Success is)
StoreEntered_Artifacts(o, p) == o.ShouldPush \/ o.ShouldArtifacts
StoreEntered(o, p) == o.ShouldPush \/ (p.Success /\ o.ShouldArtifacts)

\* the argument of the explicit buildFinisher.Finish
\* (FinishArg_Always: the explicit Finish reports success unconditionally)
FinishArg_Always(p) == TRUE
FinishArg(p) == p.Success

\* ------------------------------------------------------------------- Init
\* no metrics handler is listening
MetricsIdle ==
    /\ hOpts = [BuildID |-> "", DeployID |-> "", Debug |-> FALSE]
    /\ startStep = <<>>
    /\ now = 0
    /\ keen = <<>>
    /\ hlog = <<>>

Options == [Debug : BOOLEAN, ShouldCommit : BOOLEAN, ShouldPush : BOOLEAN,
            ShouldArtifacts : BOOLEAN, ShouldRemove : BOOLEAN]

Init ==
    /\ pc = "parse"
    /\ opts \in Options
    /\ nSteps \in 0..MaxSteps
    /\ nAfter \in 0..MaxAfterSteps
    /\ events = <<>>
    /\ calls = <<>>
    /\ defers = <<>>
    /\ buildDone = FALSE
    /\ boxCreated = FALSE
    /\ pr = NoResult
    /\ prAlloc = FALSE
    /\ stepCounter = [Current |-> 0]
    /\ idx = 0
    /\ sr = NoStepResult
    /\ storeOrder = 0
    /\ storeErr = FALSE
    /\ sess = 0
    /\ newSess = 0
    /\ boxGen = 0
    /\ exported = <<>>
    /\ retval = Running
    /\ MetricsIdle

\* leaving executePipeline: the deferred calls run next, last registered first
Leave(rv) == /\ retval' = rv
             /\ pc' = "unwind"

\* ---------------------------------------------------------------- actions
\* NewGlobalOptions: a configuration error panics in every mode.
ParseOptions ==
    /\ pc = "parse"
    /\ \E ok \in BOOLEAN :
         /\ calls' = Append(calls, Call("NewGlobalOptions", ok, 0))
         /\ IF ok THEN pc' = "startBuild" /\ retval' = retval
                  ELSE Leave(Panicked)
    /\ UNCHANGED <<opts, nSteps, nAfter, events, defers, buildDone, boxCreated, pr,
                   prAlloc, stepCounter, idx, sr, storeOrder, storeErr, sess, newSess,
                   boxGen, exported>>
    /\ UNCHANGED metricsVars

\* buildFinisher := p.StartBuild(options); defer buildFinisher.Finish(false)
StartBuild ==
    /\ pc = "startBuild"
    /\ events' = events \o StartBuildEvents
    /\ defers' = Append(defers, "finish")
    /\ pc' = "ensureCode"
    /\ UNCHANGED <<opts, nSteps, nAfter, calls, buildDone, boxCreated, pr, prAlloc,
                   stepCounter, idx, sr, storeOrder, storeErr, sess, newSess, boxGen,
                   exported, retval>>
    /\ UNCHANGED metricsVars

\* _, err = p.EnsureCode(); if err != nil { soft.Exit(err) }
\* The value of soft.Exit is dropped: in release mode the run goes on.
EnsureCode ==
    /\ pc = "ensureCode"
    /\ \E ok \in BOOLEAN :
         /\ calls' = Append(calls, Call("EnsureCode", ok, 0))
         /\ IF ~ok /\ opts.Debug
               THEN Leave(Panicked)
               ELSE pc' = "setupEnvironment" /\ retval' = retval
    /\ UNCHANGED <<opts, nSteps, nAfter, events, defers, buildDone, boxCreated, pr,
                   prAlloc, stepCounter, idx, sr, storeOrder, storeErr, sess, newSess,
                   boxGen, exported>>
    /\ UNCHANGED metricsVars

\* SetupEnvironment_NoReturn: the value of soft.Exit is dropped here as well,
\* so that in release mode the run goes on after a failed SetupEnvironment.
SetupEnvironment_NoReturn ==
    /\ pc = "setupEnvironment"
    /\ \E ok \in BOOLEAN, box \in BOOLEAN :
         /\ ok => box
         /\ calls' = Append(calls, Call("SetupEnvironment", ok, 0))
         /\ boxCreated' = box
         /\ boxGen' = IF box THEN 1 ELSE 0
         /\ sess' = IF ok THEN 1 ELSE 0
         /\ defers' = IF box THEN defers \o BoxDefers(opts) ELSE defers
         /\ IF ok THEN pc' = "stepsAdded" /\ retval' = retval
            ELSE IF opts.Debug THEN Leave(Panicked)
            ELSE pc' = "stepsAdded" /\ retval' = retval
    /\ UNCHANGED <<opts, nSteps, nAfter, events, buildDone, pr, prAlloc, stepCounter,
                   idx, sr, storeOrder, storeErr, newSess, exported>>
    /\ UNCHANGED metricsVars

\* ctx, err := p.SetupEnvironment(); the box defers; return soft.Exit(err)
\* The environment may fail before or after the box was created.
SetupEnvironment ==
    /\ pc = "setupEnvironment"
    /\ \E ok \in BOOLEAN, box \in BOOLEAN :
         /\ ok => box
         /\ calls' = Append(calls, Call("SetupEnvironment", ok, 0))
         /\ boxCreated' = box
         /\ boxGen' = IF box THEN 1 ELSE 0
         /\ sess' = IF ok THEN 1 ELSE 0
         /\ defers' = IF box THEN defers \o BoxDefers(opts) ELSE defers
         /\ IF ok THEN pc' = "stepsAdded" /\ retval' = retval
            ELSE IF opts.Debug THEN Leave(Panicked)
            ELSE Leave(SoftExitError)
    /\ UNCHANGED <<opts, nSteps, nAfter, events, buildDone, pr, prAlloc, stepCounter,
                   idx, sr, storeOrder, storeErr, newSess, exported>>
    /\ UNCHANGED metricsVars

\* e.Emit(BuildStepsAdded, ...); pr := &PipelineResult{Success: true};
\* stepCounter := &Counter{Current: 3}
StepsAdded ==
    /\ pc = "stepsAdded"
    /\ events' = Append(events, Event("BuildStepsAdded", "", 0, FALSE, "", ""))
    /\ pr' = NewPipelineResult
    /\ prAlloc' = TRUE
    /\ stepCounter' = NewCounter
    /\ idx' = 0
    /\ pc' = "steps"
    /\ UNCHANGED <<opts, nSteps, nAfter, calls, defers, buildDone, boxCreated, sr,
                   storeOrder, storeErr, sess, newSess, boxGen, exported, retval>>
    /\ UNCHANGED metricsVars

\* One iteration of the loop over pipeline.Steps(): RunStep with the next
\* order, and on failure the failure fields of pr and break.
RunUserStep ==
    /\ pc = "steps"
    /\ idx < nSteps
    /\ \E ok \in BOOLEAN :
         LET inc == Increment(stepCounter) IN
         /\ stepCounter' = inc.counter
         /\ events' = events \o RunStepEvents(StepNames[idx + 1], inc.value, ok)
         /\ calls' = Append(calls, Call("RunStep", ok, sess))
         /\ idx' = idx + 1
         /\ IF ok
               THEN /\ pr' = pr
                    /\ pc' = IF opts.ShouldCommit THEN "commitInLoop" ELSE "steps"
               ELSE /\ pr' = [Success |-> FALSE,
                              FailedStepName |-> StepDisplayNames[idx + 1],
                              FailedStepMessage |-> StepFailMessage]
                    /\ pc' = "commitAfterLoop"
    /\ UNCHANGED <<opts, nSteps, nAfter, defers, buildDone, boxCreated, prAlloc, sr,
                   storeOrder, storeErr, sess, newSess, boxGen, exported, retval>>
    /\ UNCHANGED metricsVars

\* if options.ShouldCommit { box.Commit(...) } inside the loop; the error of
\* Commit is not looked at.
CommitInLoop ==
    /\ pc = "commitInLoop"
    /\ \E ok \in BOOLEAN : calls' = Append(calls, Call("Commit", ok, 0))
    /\ pc' = "steps"
    /\ UNCHANGED <<opts, nSteps, nAfter, events, defers, buildDone, boxCreated, pr,
                   prAlloc, stepCounter, idx, sr, storeOrder, storeErr, sess, newSess,
                   boxGen, exported, retval>>
    /\ UNCHANGED metricsVars

\* the range over pipeline.Steps() is exhausted
StepsDone ==
    /\ pc = "steps"
    /\ idx = nSteps
    /\ pc' = "commitAfterLoop"
    /\ UNCHANGED <<opts, nSteps, nAfter, events, calls, defers, buildDone, boxCreated,
                   pr, prAlloc, stepCounter, idx, sr, storeOrder, storeErr, sess,
                   newSess, boxGen, exported, retval>>
    /\ UNCHANGED metricsVars

\* CommitAfterLoop_OnlyOnSuccess: the commit after the loop is skipped when the
\* loop ended on a failed step.
CommitAfterLoop_OnlyOnSuccess ==
    /\ pc = "commitAfterLoop"
    /\ IF opts.ShouldCommit /\ pr.Success
          THEN \E ok \in BOOLEAN : calls' = Append(calls, Call("Commit", ok, 0))
          ELSE calls' = calls
    /\ pc' = "storeCheck"
    /\ UNCHANGED <<opts, nSteps, nAfter, events, defers, buildDone, boxCreated, pr,
                   prAlloc, stepCounter, idx, sr, storeOrder, storeErr, sess, newSess,
                   boxGen, exported, retval>>
    /\ UNCHANGED metricsVars

\* if options.ShouldCommit { box.Commit(...) } after the loop
CommitAfterLoop ==
    /\ pc = "commitAfterLoop"
    /\ IF opts.ShouldCommit
          THEN \E ok \in BOOLEAN : calls' = Append(calls, Call("Commit", ok, 0))
          ELSE calls' = calls
    /\ pc' = "storeCheck"
    /\ UNCHANGED <<opts, nSteps, nAfter, events, defers, buildDone, boxCreated, pr,
                   prAlloc, stepCounter, idx, sr, storeOrder, storeErr, sess, newSess,
                   boxGen, exported, retval>>
    /\ UNCHANGED metricsVars

\* StoreStart_KeepName: the store step starts without recording "store" as
\* the failed step name.
StoreStart_KeepName ==
    /\ pc = "storeCheck"
    /\ StoreEntered(opts, pr)
    /\ LET inc == Increment(stepCounter) IN
         /\ stepCounter' = inc.counter
         /\ storeOrder' = inc.value
         /\ events' = Append(events, StepStartedEvent("store", inc.value))
    /\ sr' = NewStoreStepResult
    /\ pc' = "storePush"
    /\ UNCHANGED <<opts, nSteps, nAfter, calls, defers, buildDone, boxCreated, pr,
                   prAlloc, idx, storeErr, sess, newSess, boxGen, exported, retval>>
    /\ UNCHANGED metricsVars

\* The store phase is entered: the StepResult, StartStep with the next
\* order, the deferred step finisher, pr.FailedStepName = storeStep.Name.
StoreStart ==
    /\ pc = "storeCheck"
    /\ StoreEntered(opts, pr)
    /\ LET inc == Increment(stepCounter) IN
         /\ stepCounter' = inc.counter
         /\ storeOrder' = inc.value
         /\ events' = Append(events, StepStartedEvent("store", inc.value))
    /\ sr' = NewStoreStepResult
    /\ pr' = [pr EXCEPT !.FailedStepName = "store"]
    /\ pc' = "storePush"
    /\ UNCHANGED <<opts, nSteps, nAfter, calls, defers, buildDone, boxCreated, prAlloc,
                   idx, storeErr, sess, newSess, boxGen, exported, retval>>
    /\ UNCHANGED metricsVars

\* The store phase is not entered.
StoreSkip ==
    /\ pc = "storeCheck"
    /\ ~StoreEntered(opts, pr)
    /\ pc' = "finalize"
    /\ UNCHANGED <<opts, nSteps, nAfter, events, calls, defers, buildDone, boxCreated,
                   pr, prAlloc, stepCounter, idx, sr, storeOrder, storeErr, sess,
                   newSess, boxGen, exported, retval>>
    /\ UNCHANGED metricsVars

\* StorePush_NoFinish: the step finisher is not deferred, so the early return
\* on a failed push leaves the store step without its BuildStepFinished.
StorePush_NoFinish ==
    /\ pc = "storePush"
    /\ IF opts.ShouldPush
          THEN \E ok \in BOOLEAN :
                 /\ pr' = [pr EXCEPT !.FailedStepMessage = PushFailedMessage]
                 /\ calls' = Append(calls, Call("Push", ok, 0))
                 /\ storeErr' = ~ok
                 /\ pc' = IF ok THEN "storeCollect" ELSE "storeErrCheck"
          ELSE /\ pc' = "storeCollect"
               /\ UNCHANGED <<pr, calls, storeErr>>
    /\ UNCHANGED <<opts, nSteps, nAfter, events, defers, buildDone, boxCreated, prAlloc,
                   stepCounter, idx, sr, storeOrder, sess, newSess, boxGen, exported,
                   retval>>
    /\ UNCHANGED metricsVars

\* if options.ShouldPush { ...; _, err = box.Push(...); if err != nil { return err } }
StorePush ==
    /\ pc = "storePush"
    /\ IF opts.ShouldPush
          THEN \E ok \in BOOLEAN :
                 /\ pr' = [pr EXCEPT !.FailedStepMessage = PushFailedMessage]
                 /\ calls' = Append(calls, Call("Push", ok, 0))
                 /\ storeErr' = ~ok
                 /\ pc' = IF ok THEN "storeCollect" ELSE "storeFinish"
          ELSE /\ pc' = "storeCollect"
               /\ UNCHANGED <<pr, calls, storeErr>>
    /\ UNCHANGED <<opts, nSteps, nAfter, events, defers, buildDone, boxCreated, prAlloc,
                   stepCounter, idx, sr, storeOrder, sess, newSess, boxGen, exported,
                   retval>>
    /\ UNCHANGED metricsVars

\* if pr.Success && options.ShouldArtifacts { ...; pipeline.CollectArtifact(sess) }
StoreCollect ==
    /\ pc = "storeCollect"
    /\ IF pr.Success /\ opts.ShouldArtifacts
          THEN \E ok \in BOOLEAN :
                 /\ pr' = [pr EXCEPT !.FailedStepMessage = StoreFailedMessage]
                 /\ calls' = Append(calls, Call("CollectArtifact", ok, sess))
                 /\ storeErr' = ~ok
                 /\ pc' = IF ok THEN "storeUpload" ELSE "storeFinish"
          ELSE /\ pc' = "storeReset"
               /\ UNCHANGED <<pr, calls, storeErr>>
    /\ UNCHANGED <<opts, nSteps, nAfter, events, defers, buildDone, boxCreated, prAlloc,
                   stepCounter, idx, sr, storeOrder, sess, newSess, boxGen, exported,
                   retval>>
    /\ UNCHANGED metricsVars

\* err = artificer.Upload(artifact); sr.PackageURL = artifact.URL()
StoreUpload ==
    /\ pc = "storeUpload"
    /\ \E ok \in BOOLEAN :
         /\ calls' = Append(calls, Call("Upload", ok, 0))
         /\ storeErr' = ~ok
         /\ sr' = IF ok THEN [sr EXCEPT !.PackageURL = ArtifactURL] ELSE sr
         /\ pc' = IF ok THEN "storeReset" ELSE "storeFinish"
    /\ UNCHANGED <<opts, nSteps, nAfter, events, defers, buildDone, boxCreated, pr,
                   prAlloc, stepCounter, idx, storeOrder, sess, newSess, boxGen,
                   exported, retval>>
    /\ UNCHANGED metricsVars

\* StoreReset_KeepExitCode: the exit code of the store StepResult is left at 1.
StoreReset_KeepExitCode ==
    /\ pc = "storeReset"
    /\ pr' = [Success |-> TRUE, FailedStepName |-> "", FailedStepMessage |-> ""]
    /\ sr' = [sr EXCEPT !.Success = TRUE]
    /\ pc' = "storeFinish"
    /\ UNCHANGED <<opts, nSteps, nAfter, events, calls, defers, buildDone, boxCreated,
                   prAlloc, stepCounter, idx, storeOrder, storeErr, sess, newSess,
                   boxGen, exported, retval>>
    /\ UNCHANGED metricsVars

\* "Everything went ok, so reset failed related fields"; return nil
StoreReset ==
    /\ pc = "storeReset"
    /\ pr' = [Success |-> TRUE, FailedStepName |-> "", FailedStepMessage |-> ""]
    /\ sr' = [sr EXCEPT !.Success = TRUE, !.ExitCode = 0]
    /\ pc' = "storeFinish"
    /\ UNCHANGED <<opts, nSteps, nAfter, events, calls, defers, buildDone, boxCreated,
                   prAlloc, stepCounter, idx, storeOrder, storeErr, sess, newSess,
                   boxGen, exported, retval>>
    /\ UNCHANGED metricsVars

\* the deferred finisher.Finish(sr) of the store closure
StoreFinish ==
    /\ pc = "storeFinish"
    /\ events' = Append(events, StepFinishedEvent("store", storeOrder, sr))
    /\ pc' = "storeErrCheck"
    /\ UNCHANGED <<opts, nSteps, nAfter, calls, defers, buildDone, boxCreated, pr,
                   prAlloc, stepCounter, idx, sr, storeOrder, storeErr, sess, newSess,
                   boxGen, exported, retval>>
    /\ UNCHANGED metricsVars

\* if err != nil { pr.Success = false }
StoreErrCheck ==
    /\ pc = "storeErrCheck"
    /\ pr' = IF storeErr THEN [pr EXCEPT !.Success = FALSE] ELSE pr
    /\ pc' = "finalize"
    /\ UNCHANGED <<opts, nSteps, nAfter, events, calls, defers, buildDone, boxCreated,
                   prAlloc, stepCounter, idx, sr, storeOrder, storeErr, sess, newSess,
                   boxGen, exported, retval>>
    /\ UNCHANGED metricsVars

\* buildFinisher.Finish(pr.Success)
Finalize ==
    /\ pc = "finalize"
    /\ events' = events \o BuildFinishEvents(buildDone, FinishArg(pr))
    /\ buildDone' = TRUE
    /\ pc' = "afterCheck"
    /\ UNCHANGED <<opts, nSteps, nAfter, calls, defers, boxCreated, pr, prAlloc,
                   stepCounter, idx, sr, storeOrder, storeErr, sess, newSess, boxGen,
                   exported, retval>>
    /\ UNCHANGED metricsVars

\* AfterCheck_OnlyOnSuccess: the after-steps are skipped when the build failed.
AfterCheck_OnlyOnSuccess ==
    /\ pc = "afterCheck"
    /\ IF nAfter = 0 \/ ~pr.Success THEN Leave(ReturnNil)
                     ELSE pc' = "restart" /\ retval' = retval
    /\ UNCHANGED <<opts, nSteps, nAfter, events, calls, defers, buildDone, boxCreated,
                   pr, prAlloc, stepCounter, idx, sr, storeOrder, storeErr, sess,
                   newSess, boxGen, exported>>
    /\ UNCHANGED metricsVars

\* if len(pipeline.AfterSteps()) == 0 { return nil }
AfterCheck ==
    /\ pc = "afterCheck"
    /\ IF nAfter = 0 THEN Leave(ReturnNil)
                     ELSE pc' = "restart" /\ retval' = retval
    /\ UNCHANGED <<opts, nSteps, nAfter, events, calls, defers, buildDone, boxCreated,
                   pr, prAlloc, stepCounter, idx, sr, storeOrder, storeErr, sess,
                   newSess, boxGen, exported>>
    /\ UNCHANGED metricsVars

\* container, err := box.Restart(); if err != nil { log.Panicln(err) }
Restart ==
    /\ pc = "restart"
    /\ \E ok \in BOOLEAN :
         /\ calls' = Append(calls, Call("Restart", ok, 0))
         /\ boxGen' = IF ok THEN boxGen + 1 ELSE boxGen
         /\ IF ok THEN pc' = "getSession" /\ retval' = retval
                  ELSE Leave(Panicked)
    /\ UNCHANGED <<opts, nSteps, nAfter, events, defers, buildDone, boxCreated, pr,
                   prAlloc, stepCounter, idx, sr, storeOrder, storeErr, sess, newSess,
                   exported>>
    /\ UNCHANGED metricsVars

\* newSess, err := p.GetSession(container.ID); if err != nil { log.Panicln(err) }
GetSession ==
    /\ pc = "getSession"
    /\ \E ok \in BOOLEAN :
         /\ calls' = Append(calls, Call("GetSession", ok, 0))
         /\ newSess' = IF ok THEN boxGen ELSE newSess
         /\ IF ok THEN pc' = "exportEnvironment" /\ retval' = retval
                  ELSE Leave(Panicked)
    /\ UNCHANGED <<opts, nSteps, nAfter, events, defers, buildDone, boxCreated, pr,
                   prAlloc, stepCounter, idx, sr, storeOrder, storeErr, sess, boxGen,
                   exported>>
    /\ UNCHANGED metricsVars

\* err = pipeline.ExportEnvironment(newSess); if err != nil { return err }
ExportEnvironment ==
    /\ pc = "exportEnvironment"
    /\ \E ok \in BOOLEAN :
         /\ calls' = Append(calls, Call("ExportEnvironment", ok, newSess))
         /\ IF ok THEN pc' = "exportResult" /\ retval' = retval
                  ELSE Leave(ReturnError("export environment"))
    /\ UNCHANGED <<opts, nSteps, nAfter, events, defers, buildDone, boxCreated, pr,
                   prAlloc, stepCounter, idx, sr, storeOrder, storeErr, sess, newSess,
                   boxGen, exported>>
    /\ UNCHANGED metricsVars

\* err = pr.ExportEnvironment(newSess); if err != nil { return err }
ExportResult ==
    /\ pc = "exportResult"
    /\ \E ok \in BOOLEAN :
         /\ calls' = Append(calls, Call("ExportResult", ok, newSess))
         /\ exported' = IF ok THEN <<pr>> ELSE exported
         /\ idx' = 0
         /\ IF ok THEN pc' = "afterSteps" /\ retval' = retval
                  ELSE Leave(ReturnError("export result"))
    /\ UNCHANGED <<opts, nSteps, nAfter, events, defers, buildDone, boxCreated, pr,
                   prAlloc, stepCounter, sr, storeOrder, storeErr, sess, newSess,
                   boxGen>>
    /\ UNCHANGED metricsVars

\* RunAfterStep_OldContext: the after-steps are run with ctx instead of newCtx.
RunAfterStep_OldContext ==
    /\ pc = "afterSteps"
    /\ idx < nAfter
    /\ \E ok \in BOOLEAN :
         LET inc == Increment(stepCounter) IN
         /\ stepCounter' = inc.counter
         /\ events' = events \o RunStepEvents(AfterStepNames[idx + 1], inc.value, ok)
         /\ calls' = Append(calls, Call("RunStep", ok, sess))
         /\ idx' = idx + 1
         /\ pc' = IF ok THEN "afterSteps" ELSE "return"
    /\ UNCHANGED <<opts, nSteps, nAfter, defers, buildDone, boxCreated, pr, prAlloc, sr,
                   storeOrder, storeErr, sess, newSess, boxGen, exported, retval>>
    /\ UNCHANGED metricsVars

\* RunAfterStep_RecordsFailure: a failing after-step is recorded in pr the way
\* a failing user step is.
RunAfterStep_RecordsFailure ==
    /\ pc = "afterSteps"
    /\ idx < nAfter
    /\ \E ok \in BOOLEAN :
         LET inc == Increment(stepCounter) IN
         /\ stepCounter' = inc.counter
         /\ events' = events \o RunStepEvents(AfterStepNames[idx + 1], inc.value, ok)
         /\ calls' = Append(calls, Call("RunStep", ok, newSess))
         /\ idx' = idx + 1
         /\ pc' = IF ok THEN "afterSteps" ELSE "return"
         /\ pr' = IF ok THEN pr
                  ELSE [Success |-> FALSE, FailedStepName |-> AfterStepNames[idx + 1],
                        FailedStepMessage |-> StepFailMessage]
    /\ UNCHANGED <<opts, nSteps, nAfter, defers, buildDone, boxCreated, prAlloc, sr,
                   storeOrder, storeErr, sess, newSess, boxGen, exported, retval>>
    /\ UNCHANGED metricsVars

\* One iteration of the loop over pipeline.AfterSteps(): RunStep with newCtx
\* and the next order of the same counter; a failure breaks the loop.
RunAfterStep ==
    /\ pc = "afterSteps"
    /\ idx < nAfter
    /\ \E ok \in BOOLEAN :
         LET inc == Increment(stepCounter) IN
         /\ stepCounter' = inc.counter
         /\ events' = events \o RunStepEvents(AfterStepNames[idx + 1], inc.value, ok)
         /\ calls' = Append(calls, Call("RunStep", ok, newSess))
         /\ idx' = idx + 1
         /\ pc' = IF ok THEN "afterSteps" ELSE "return"
    /\ UNCHANGED <<opts, nSteps, nAfter, defers, buildDone, boxCreated, pr, prAlloc, sr,
                   storeOrder, storeErr, sess, newSess, boxGen, exported, retval>>
    /\ UNCHANGED metricsVars

\* the range over pipeline.AfterSteps() is exhausted
AfterStepsDone ==
    /\ pc = "afterSteps"
    /\ idx = nAfter
    /\ pc' = "return"
    /\ UNCHANGED <<opts, nSteps, nAfter, events, calls, defers, buildDone, boxCreated,
                   pr, prAlloc, stepCounter, idx, sr, storeOrder, storeErr, sess,
                   newSess, boxGen, exported, retval>>
    /\ UNCHANGED metricsVars

\* if !pr.Success { return fmt.Errorf("Step failed: %s", pr.FailedStepName) }; return nil
Return ==
    /\ pc = "return"
    /\ IF pr.Success THEN Leave(ReturnNil)
                     ELSE Leave(StepFailedError(pr.FailedStepName))
    /\ UNCHANGED <<opts, nSteps, nAfter, events, calls, defers, buildDone, boxCreated,
                   pr, prAlloc, stepCounter, idx, sr, storeOrder, storeErr, sess,
                   newSess, boxGen, exported>>
    /\ UNCHANGED metricsVars

\* ------------------------------------------------------ the deferred calls
Top(st) == st[Len(st)]
Pop(st) == SubSeq(st, 1, Len(st) - 1)

\* defer ctx.box.Stop()
DeferredStop ==
    /\ pc = "unwind"
    /\ defers # <<>>
    /\ Top(defers) = "stop"
    /\ \E ok \in BOOLEAN : calls' = Append(calls, Call("Stop", ok, 0))
    /\ defers' = Pop(defers)
    /\ UNCHANGED <<pc, opts, nSteps, nAfter, events, buildDone, boxCreated, pr, prAlloc,
                   stepCounter, idx, sr, storeOrder, storeErr, sess, newSess, boxGen,
                   exported, retval>>
    /\ UNCHANGED metricsVars

\* defer ctx.box.Clean()
DeferredClean ==
    /\ pc = "unwind"
    /\ defers # <<>>
    /\ Top(defers) = "clean"
    /\ \E ok \in BOOLEAN : calls' = Append(calls, Call("Clean", ok, 0))
    /\ defers' = Pop(defers)
    /\ UNCHANGED <<pc, opts, nSteps, nAfter, events, buildDone, boxCreated, pr, prAlloc,
                   stepCounter, idx, sr, storeOrder, storeErr, sess, newSess, boxGen,
                   exported, retval>>
    /\ UNCHANGED metricsVars

\* defer buildFinisher.Finish(false)
DeferredFinish ==
    /\ pc = "unwind"
    /\ defers # <<>>
    /\ Top(defers) = "finish"
    /\ events' = events \o BuildFinishEvents(buildDone, FALSE)
    /\ buildDone' = TRUE
    /\ defers' = Pop(defers)
    /\ UNCHANGED <<pc, opts, nSteps, nAfter, calls, boxCreated, pr, prAlloc, stepCounter,
                   idx, sr, storeOrder, storeErr, sess, newSess, boxGen, exported,
                   retval>>
    /\ UNCHANGED metricsVars

\* every deferred call has run: executePipeline is over
Exit ==
    /\ pc = "unwind"
    /\ defers = <<>>
    /\ pc' = "done"
    /\ UNCHANGED <<opts, nSteps, nAfter, events, calls, defers, buildDone, boxCreated,
                   pr, prAlloc, stepCounter, idx, sr, storeOrder, storeErr, sess,
                   newSess, boxGen, exported, retval>>
    /\ UNCHANGED metricsVars

Next ==
    \/ ParseOptions \/ StartBuild \/ EnsureCode \/ SetupEnvironment \/ StepsAdded
    \/ RunUserStep \/ CommitInLoop \/ StepsDone \/ CommitAfterLoop
    \/ StoreStart \/ StoreSkip \/ StorePush \/ StoreCollect \/ StoreUpload
    \/ StoreReset \/ StoreFinish \/ StoreErrCheck
    \/ Finalize \/ AfterCheck \/ Restart \/ GetSession \/ ExportEnvironment
    \/ ExportResult \/ RunAfterStep \/ AfterStepsDone \/ Return
    \/ DeferredStop \/ DeferredClean \/ DeferredFinish \/ Exit

Spec == Init /\ [][Next]_vars

\* ------------------------------------------------------ the metrics handler
\* MetricsEventHandler (event/metricshandler.go) receiving step events.
MaxDeliveries == 3
MaxTime == 3

\* the clock has a finer grain than the whole seconds of a duration
TicksPerSecond == 2

SafeIDs == <<"wercker/step-a@1", "wercker/step-b@1">>
SafeIDSet == {SafeIDs[i] : i \in DOMAIN SafeIDs}

\* the order an emitter gives to the steps, here by position
OrderOf(id) == 2 + (CHOOSE i \in DOMAIN SafeIDs : SafeIDs[i] = id)

MetricsOptions == [BuildID : {"", "build-1"}, DeployID : {"", "deploy-1"}, Debug : BOOLEAN]

\* what a logger.Panic leaves instead of a value
PanicValue == "panic"

\* getCollection
GetCollection(o) ==
    IF o.BuildID # "" THEN "build-events"
    ELSE IF o.DeployID # "" THEN "deploy-events"
    ELSE PanicValue

\* getPipelineName
GetPipelineName(o) ==
    IF o.BuildID # "" THEN "build"
    ELSE IF o.DeployID # "" THEN "deploy"
    ELSE PanicValue

\* int64(elapsed.Seconds()): the whole seconds of a span of ticks
WholeSeconds(ticks) == ticks \div TicksPerSecond

\* the duration BuildStepFinished reports for a step: the whole seconds since
\* the recorded start, 0 when no start is recorded
\* (StepDuration_Raw: the span is reported without the conversion to seconds)
StepDuration_Raw(m, id, t) == IF id \in DOMAIN m THEN t - m[id] ELSE 0
StepDuration(m, id, t) == IF id \in DOMAIN m THEN WholeSeconds(t - m[id]) ELSE 0

\* PutStart_KeepFirst: a start already recorded for the SafeID is kept.
PutStart_KeepFirst(m, id, t) ==
    IF id \in DOMAIN m THEN m ELSE [s \in DOMAIN m \cup {id} |-> IF s = id THEN t ELSE m[s]]

\* h.startStep[id] = t
PutStart(m, id, t) == [s \in DOMAIN m \cup {id} |-> IF s = id THEN t ELSE m[s]]

\* delete(h.startStep, id)
DeleteStart(m, id) == [s \in DOMAIN m \ {id} |-> m[s]]

\* MetricsPayload of a step event; Duration and Success are pointers, here a
\* sequence that is empty (nil) or holds the value
StepPayload(id, order, duration, success, message) ==
    [Step |-> id, StepOrder |-> order, Duration |-> duration, Success |-> success,
     Message |-> message]

\* sendPayload: the collection and the pipeline name are computed first, and
\* their panic leaves the handler before h.keen.AddEvent
SendPayload(k, p, o, t, eventName) ==
    IF GetCollection(o) = PanicValue \/ GetPipelineName(o) = PanicValue
       THEN [keen |-> k, panic |-> TRUE]
       ELSE [keen |-> Append(k, [collection |-> GetCollection(o),
                                 Event |-> eventName,
                                 Timestamp |-> WholeSeconds(t),
                                 BuildID |-> o.BuildID,
                                 DeployID |-> o.DeployID,
                                 PipelineName |-> GetPipelineName(o),
                                 Step |-> p.Step,
                                 StepOrder |-> p.StepOrder,
                                 Duration |-> p.Duration,
                                 Success |-> p.Success,
                                 Message |-> p.Message]),
             panic |-> FALSE]

\* one delivery to the handler and how it ended
Delivery(event, id, t, out) ==
    [event |-> event, step |-> id, at |-> t, panic |-> out.panic,
     keenLen |-> Len(out.keen)]

\* NewMetricsHandler: an empty startStep map; the options of the pipeline
MetricsInit ==
    /\ hOpts \in MetricsOptions
    /\ startStep = <<>>
    /\ now = 0
    /\ keen = <<>>
    /\ hlog = <<>>
    /\ pc = "parse"
    /\ opts = [Debug |-> hOpts.Debug, ShouldCommit |-> FALSE, ShouldPush |-> FALSE,
               ShouldArtifacts |-> FALSE, ShouldRemove |-> FALSE]
    /\ nSteps = 0
    /\ nAfter = 0
    /\ events = <<>>
    /\ calls = <<>>
    /\ defers = <<>>
    /\ buildDone = FALSE
    /\ boxCreated = FALSE
    /\ pr = NoResult
    /\ prAlloc = FALSE
    /\ stepCounter = [Current |-> 0]
    /\ idx = 0
    /\ sr = NoStepResult
    /\ storeOrder = 0
    /\ storeErr = FALSE
    /\ sess = 0
    /\ newSess = 0
    /\ boxGen = 0
    /\ exported = <<>>
    /\ retval = Running

\* time passes between two events
Tick ==
    /\ now < MaxTime
    /\ now' = now + 1
    /\ UNCHANGED <<hOpts, startStep, keen, hlog>>
    /\ UNCHANGED runVars

\* MetricsEventHandler.BuildStepStarted
HandleBuildStepStarted ==
    /\ Len(hlog) < MaxDeliveries
    /\ \E id \in SafeIDSet :
         LET p == StepPayload(id, OrderOf(id), <<>>, <<>>, "")
             out == SendPayload(keen, p, hOpts, now, "buildStepStarted")
         IN /\ startStep' = PutStart(startStep, id, now)
            /\ keen' = out.keen
            /\ hlog' = Append(hlog, Delivery("BuildStepStarted", id, now, out))
    /\ UNCHANGED <<hOpts, now>>
    /\ UNCHANGED runVars

\* MetricsEventHandler.BuildStepFinished
HandleBuildStepFinished ==
    /\ Len(hlog) < MaxDeliveries
    /\ \E id \in SafeIDSet, successful \in BOOLEAN :
         LET duration == StepDuration(startStep, id, now)
             p == StepPayload(id, OrderOf(id), <<duration>>, <<successful>>,
                              IF successful THEN "" ELSE StepFailMessage)
             out == SendPayload(keen, p, hOpts, now, "buildStepFinished")
         IN /\ startStep' = DeleteStart(startStep, id)
            /\ keen' = out.keen
            /\ hlog' = Append(hlog, Delivery("BuildStepFinished", id, now, out))
    /\ UNCHANGED <<hOpts, now>>
    /\ UNCHANGED runVars

MetricsNext == Tick \/ HandleBuildStepStarted \/ HandleBuildStepFinished

SpecMetrics == MetricsInit /\ [][MetricsNext]_vars

\* ------------------------------------------------- observations on a run
EventsOfType(t) == {i \in DOMAIN events : events[i].type = t}
CallsOf(op) == {i \in DOMAIN calls : calls[i].op = op}
FailedCallsOf(op) == {i \in CallsOf(op) : ~calls[i].ok}

UserStepNameSet == {StepNames[i] : i \in DOMAIN StepNames}
AfterStepNameSet == {AfterStepNames[i] : i \in DOMAIN AfterStepNames}

StepEvents == EventsOfType("BuildStepStarted") \cup EventsOfType("BuildStepFinished")
StartedOf(names) == {i \in EventsOfType("BuildStepStarted") : events[i].step \in names}
FinishedOf(names) == {i \in EventsOfType("BuildStepFinished") : events[i].step \in names}

\* the code fetch succeeded
CodeFetched == CallsOf("EnsureCode") # {} /\ FailedCallsOf("EnsureCode") = {}

\* a user step has failed
UserStepFailed == \E i \in FinishedOf(UserStepNameSet) : ~events[i].success

\* the run got past option parsing
ParsedOK == \E i \in CallsOf("NewGlobalOptions") : calls[i].ok

\* BuildFinished has been emitted with this result and no other
BuildFinishedWith(result) ==
    /\ Cardinality(EventsOfType("BuildFinished")) = 1
    /\ \A i \in EventsOfType("BuildFinished") : events[i].result = result

\* the Started event at i has its Finished event, same step and order, before position f
FinishedBefore(i, f) ==
    \E j \in EventsOfType("BuildStepFinished") :
        /\ i < j /\ j < f
        /\ events[j].step = events[i].step
        /\ events[j].order = events[i].order

\* ----------------------------------------------------------------- claims

\* C1: once a user step has failed, PipelineResult.Success is never true
\* again in the run, whatever the options and the push outcome, and
\* BuildFinished reports "failed" (stated for the runs whose code fetch
\* succeeded).
C1_NoUpgradeAfterUserStepFailure ==
    (CodeFetched /\ UserStepFailed) =>
        /\ ~pr.Success
        /\ \A i \in EventsOfType("BuildFinished") : events[i].result = "failed"

\* C2: executePipeline returns no error if and only if the final
\* PipelineResult.Success is true, and when it is false the error carries
\* the failed step name, also when there are no after-steps (stated for the
\* runs whose code fetch succeeded and that did not panic).
C2_ErrorIffFailed ==
    (pc = "done" /\ CodeFetched /\ prAlloc /\ retval.kind # "panic") =>
        /\ (retval.kind = "nil") <=> pr.Success
        /\ ~pr.Success => retval = StepFailedError(pr.FailedStepName)

\* C3: a run that got past option parsing emits exactly one BuildStarted and
\* exactly one BuildFinished on every exit path, the deferred and the
\* explicit Finish never both emit, and the result is "passed" exactly when
\* the final PipelineResult.Success is true.
C3_OneStartOneFinish ==
    /\ Cardinality(EventsOfType("BuildStarted")) <= 1
    /\ Cardinality(EventsOfType("BuildFinished")) <= 1
    /\ \A i \in EventsOfType("BuildFinished") :
          (events[i].result = "passed") <=> (prAlloc /\ pr.Success)
    /\ (pc = "done" /\ ParsedOK) =>
          /\ Cardinality(EventsOfType("BuildStarted")) = 1
          /\ Cardinality(EventsOfType("BuildFinished")) = 1

\* C3 witness: a run that passed, then panicked in the after-step set-up, so
\* that the deferred Finish(false) ran after the explicit Finish(true).
C3_Witness ==
    /\ pc = "done"
    /\ retval.kind = "panic"
    /\ BuildFinishedWith("passed")

\* C4 as stated: every step whose BuildStepStarted is emitted (user steps,
\* the store step and after-steps) has its BuildStepFinished before
\* BuildFinished, and no step event follows BuildFinished.
C4_AllStepEventsBeforeBuildFinished ==
    \A f \in EventsOfType("BuildFinished") :
        /\ \A i \in StepEvents : i < f
        /\ \A i \in EventsOfType("BuildStepStarted") : FinishedBefore(i, f)

\* C4 amended: every user step and the store step whose BuildStepStarted is
\* emitted has its BuildStepFinished, same step and order, before
\* BuildFinished and none of their events follows BuildFinished; the events
\* of after-steps all follow BuildFinished, each BuildStepStarted directly
\* followed by its BuildStepFinished.
C4_StepEventsAroundBuildFinished ==
    \A f \in EventsOfType("BuildFinished") :
        /\ \A i \in StepEvents :
              IF events[i].step \in AfterStepNameSet THEN i > f ELSE i < f
        /\ \A i \in StartedOf(UserStepNameSet \cup {"store"}) : FinishedBefore(i, f)
        /\ \A i \in StartedOf(AfterStepNameSet) : FinishedBefore(i, i + 2)

\* C4 witness: the store step finished before BuildFinished and an
\* after-step ran after it.
C4_Witness ==
    \E f \in EventsOfType("BuildFinished") :
        /\ \E i \in StartedOf({"store"}) : FinishedBefore(i, f)
        /\ \E k \in StartedOf(AfterStepNameSet) : k > f

\* C5: if EnsureCode fails no further phase runs (no SetupEnvironment, no
\* BuildStepsAdded, no step) and the run ends with BuildFinished(failed) and
\* an error, in debug and in release mode.
C5_EnsureCodeFailureStopsRun ==
    FailedCallsOf("EnsureCode") # {} =>
        /\ CallsOf("SetupEnvironment") = {}
        /\ EventsOfType("BuildStepsAdded") = {}
        /\ StepEvents = {}
        /\ pc = "done" => /\ BuildFinishedWith("failed")
                          /\ retval.kind \in {"error", "panic"}

\* C6 as stated: with ShouldRemove, Box.Clean is invoked exactly once, after
\* Box.Stop, on every exit path that reached SetupEnvironment (its failure
\* included); without ShouldRemove Clean is never invoked and Stop is invoked
\* once whenever a box was created (stated for the runs whose code fetch
\* succeeded).
C6_CleanOnEveryExitPath ==
    (pc = "done" /\ CodeFetched /\ CallsOf("SetupEnvironment") # {}) =>
        IF opts.ShouldRemove
           THEN /\ Cardinality(CallsOf("Clean")) = 1
                /\ \A i \in CallsOf("Clean") : \E j \in CallsOf("Stop") : j < i
           ELSE /\ CallsOf("Clean") = {}
                /\ boxCreated => Cardinality(CallsOf("Stop")) = 1

\* C6 amended: when SetupEnvironment created a box, Box.Stop is invoked
\* exactly once on every exit path and, if ShouldRemove is set, Box.Clean
\* exactly once after it; Clean is never invoked without ShouldRemove, and
\* when no box was created neither Stop nor Clean is invoked.
C6_CleanOnceAfterStopWhenBoxCreated ==
    /\ Cardinality(CallsOf("Clean")) <= 1
    /\ Cardinality(CallsOf("Stop")) <= 1
    /\ \A i \in CallsOf("Clean") : \E j \in CallsOf("Stop") : j < i
    /\ CallsOf("Clean") # {} => opts.ShouldRemove
    /\ CallsOf("Clean") \cup CallsOf("Stop") # {} => boxCreated
    /\ (pc = "done" /\ boxCreated) =>
          /\ Cardinality(CallsOf("Stop")) = 1
          /\ opts.ShouldRemove => Cardinality(CallsOf("Clean")) = 1

\* C6 witness: a run with ShouldRemove that ended in the panic of Restart or
\* GetSession and still stopped and cleaned its box.
C6_Witness ==
    /\ pc = "done"
    /\ opts.ShouldRemove
    /\ retval.kind = "panic"
    /\ FailedCallsOf("Restart") \cup FailedCallsOf("GetSession") # {}
    /\ CallsOf("Clean") # {}

\* SetupEnvironment failed after the box was created
SetupFailedWithBox == FailedCallsOf("SetupEnvironment") # {} /\ boxCreated

\* C7: if SetupEnvironment fails after the box was created the box is still
\* released (Stop, and Clean with ShouldRemove), BuildStepsAdded and step
\* events are never emitted, BuildFinished(failed) is emitted and in release
\* mode executePipeline returns an error.
C7_SetupFailureReleasesBox ==
    SetupFailedWithBox =>
        /\ EventsOfType("BuildStepsAdded") = {}
        /\ StepEvents = {}
        /\ pc = "done" =>
              /\ Cardinality(CallsOf("Stop")) = 1
              /\ opts.ShouldRemove => Cardinality(CallsOf("Clean")) = 1
              /\ BuildFinishedWith("failed")
              /\ ~opts.Debug => retval.kind = "error"

\* C7 witness: a finished release-mode run with ShouldRemove whose
\* SetupEnvironment failed with a box.
C7_Witness ==
    /\ pc = "done"
    /\ SetupFailedWithBox
    /\ opts.ShouldRemove
    /\ ~opts.Debug

\* C8: the order values of the step events are strictly increasing and start
\* at 3: the k-th BuildStepStarted of the run (user steps, then the store
\* step, then the after-steps) carries 2 + k, and every BuildStepFinished
\* carries the order of the BuildStepStarted of its step.
C8_OrdersIncreaseFromThree ==
    /\ \A i \in EventsOfType("BuildStepStarted") :
          events[i].order =
              2 + Cardinality({j \in EventsOfType("BuildStepStarted") : j <= i})
    /\ \A j \in EventsOfType("BuildStepFinished") :
          \E i \in EventsOfType("BuildStepStarted") :
              /\ i < j
              /\ events[i].step = events[j].step
              /\ events[i].order = events[j].order

\* C8 witness: two user steps, the store step and two after-steps were run.
C8_Witness ==
    /\ Cardinality(StartedOf(UserStepNameSet)) >= 2
    /\ StartedOf({"store"}) # {}
    /\ Cardinality(FinishedOf(AfterStepNameSet)) >= 2

\* C9: if a user step fails no later user step is executed, the store phase
\* is entered if and only if ShouldPush is set, and BuildFinished is still
\* emitted.
C9_UserStepFailureStopsSteps ==
    UserStepFailed =>
        /\ \A i \in FinishedOf(UserStepNameSet) :
              ~events[i].success =>
                  \A j \in DOMAIN events : j > i => events[j].step \notin UserStepNameSet
        /\ pc \notin {"commitAfterLoop", "storeCheck"} =>
              (StartedOf({"store"}) # {} <=> opts.ShouldPush)
        /\ pc = "done" => Cardinality(EventsOfType("BuildFinished")) = 1

\* C9 witness: the first of two user steps failed with ShouldArtifacts set
\* and ShouldPush not set, and the run is over.
C9_Witness ==
    /\ pc = "done"
    /\ UserStepFailed
    /\ nSteps >= 2
    /\ opts.ShouldArtifacts
    /\ ~opts.ShouldPush

\* C10: with ShouldPush and all user steps successful, a failing Box.Push
\* gives a store BuildStepFinished with success=false and the message
\* "Unable to push to registry", the PipelineResult {false, "store", "Unable
\* to push to registry"}, no artifact collection or upload, and
\* BuildFinished(failed) (stated for the runs whose code fetch succeeded).
C10_PushFailureReported ==
    (CodeFetched /\ FailedCallsOf("Push") # {} /\ ~UserStepFailed /\ buildDone) =>
        /\ \E i \in FinishedOf({"store"}) :
              /\ ~events[i].success
              /\ events[i].message = PushFailedMessage
        /\ pr = [Success |-> FALSE, FailedStepName |-> "store",
                 FailedStepMessage |-> PushFailedMessage]
        /\ CallsOf("CollectArtifact") \cup CallsOf("Upload") = {}
        /\ BuildFinishedWith("failed")

\* the artifact was collected and uploaded
ArtifactStored ==
    /\ CallsOf("CollectArtifact") # {} /\ FailedCallsOf("CollectArtifact") = {}
    /\ CallsOf("Upload") # {} /\ FailedCallsOf("Upload") = {}

\* the collection or the upload of the artifact failed
ArtifactFailed == FailedCallsOf("CollectArtifact") \cup FailedCallsOf("Upload") # {}

\* C11: with ShouldArtifacts, all user steps successful and the artifact
\* collected and uploaded (after a successful push when ShouldPush is set),
\* the store BuildStepFinished carries success=true, exit code 0 and the
\* PackageURL of the artifact, the failure fields of PipelineResult are empty
\* and BuildFinished(passed) is emitted; if the collection or the upload
\* fails, PipelineResult is {false, "store", "Unable to store pipeline
\* output"} and the store step finishes with success=false.
C11_ArtifactStoreOutcome ==
    (opts.ShouldArtifacts /\ ~UserStepFailed /\ FinishedOf({"store"}) # {}) =>
        /\ ArtifactStored =>
              /\ FailedCallsOf("Push") = {}
              /\ opts.ShouldPush => CallsOf("Push") # {}
              /\ \A i \in FinishedOf({"store"}) : events[i].success
              /\ sr.Success /\ sr.ExitCode = 0 /\ sr.PackageURL = ArtifactURL
              /\ pr.FailedStepName = "" /\ pr.FailedStepMessage = ""
              /\ buildDone => pr.Success /\ BuildFinishedWith("passed")
        /\ ArtifactFailed =>
              /\ \A i \in FinishedOf({"store"}) : ~events[i].success
              /\ ~sr.Success
              /\ buildDone =>
                    /\ pr = [Success |-> FALSE, FailedStepName |-> "store",
                             FailedStepMessage |-> StoreFailedMessage]
                    /\ BuildFinishedWith("failed")

\* C11 witness: a finished run with ShouldPush and ShouldArtifacts whose push,
\* collection and upload succeeded after two successful user steps.
C11_Witness ==
    /\ pc = "done"
    /\ opts.ShouldArtifacts /\ opts.ShouldPush
    /\ Cardinality(FinishedOf(UserStepNameSet)) = 2
    /\ ~UserStepFailed
    /\ ArtifactStored
    /\ BuildFinishedWith("passed")

\* C12: Box.Push is invoked only after at least one Box.Commit of the run has
\* completed successfully; with ShouldPush and without ShouldCommit, or when
\* every Commit failed, no Push is attempted.
C12_PushOnlyAfterSuccessfulCommit ==
    CodeFetched =>
        \A i \in CallsOf("Push") :
            \E j \in CallsOf("Commit") : j < i /\ calls[j].ok

\* the after-step loop has been reached: the result was exported to its session
AfterStepsReached == \E i \in CallsOf("ExportResult") : calls[i].ok

\* an after-step has failed
AfterStepFailed == \E i \in FinishedOf(AfterStepNameSet) : ~events[i].success

\* the error that follows from a PipelineResult (lines 388-391)
ErrorOf(p) == IF p.Success THEN ReturnNil ELSE StepFailedError(p.FailedStepName)

EnvironmentReady == \E i \in CallsOf("SetupEnvironment") : calls[i].ok

\* a finished run of a pipeline without steps and after-steps whose code
\* fetch and environment setup succeeded
EmptyRunDone ==
    /\ pc = "done"
    /\ nSteps = 0 /\ nAfter = 0
    /\ CodeFetched /\ EnvironmentReady

\* the event stream BuildStarted, BuildStepsAdded, BuildFinished(passed)
EmptyRunEvents ==
    <<Event("BuildStarted", "", 0, FALSE, "", ""),
      Event("BuildStepsAdded", "", 0, FALSE, "", ""),
      Event("BuildFinished", "", 0, FALSE, "", "passed")>>

\* C14 as stated: a run without steps and after-steps whose code fetch and
\* environment setup succeed emits exactly BuildStarted, BuildStepsAdded,
\* BuildFinished(passed), for every ShouldCommit, ShouldPush, ShouldArtifacts.
C14_EmptyRunThreeEvents == EmptyRunDone => events = EmptyRunEvents

\* C14 amended: such a run emits exactly BuildStarted, BuildStepsAdded,
\* BuildFinished(passed) for every ShouldCommit when neither ShouldPush nor
\* ShouldArtifacts is set; when one of them is set the store step's
\* BuildStepStarted and BuildStepFinished, with order 3, come between
\* BuildStepsAdded and BuildFinished, and BuildFinished is "passed" exactly
\* when the store step succeeded.
C14_EmptyRunEventsAndStore ==
    EmptyRunDone =>
        IF ~opts.ShouldPush /\ ~opts.ShouldArtifacts
           THEN events = EmptyRunEvents
           ELSE /\ Len(events) = 5
                /\ events[1] = EmptyRunEvents[1]
                /\ events[2] = EmptyRunEvents[2]
                /\ events[3] = StepStartedEvent("store", 3)
                /\ events[4] = StepFinishedEvent("store", 3, sr)
                /\ events[5].type = "BuildFinished"
                /\ (events[5].result = "passed") <=> events[4].success

\* C14 witness: a finished empty run with ShouldCommit and without ShouldPush
\* and ShouldArtifacts.
C14_Witness ==
    /\ EmptyRunDone
    /\ opts.ShouldCommit /\ ~opts.ShouldPush /\ ~opts.ShouldArtifacts
    /\ CallsOf("Commit") # {}

\* C15: in release mode no path of executePipeline panics: a configuration
\* error of NewGlobalOptions and a failure of Box.Restart or GetSession are
\* returned as errors; panics are raised only when options.Debug is set.
C15_PanicOnlyInDebug ==
    retval.kind = "panic" => opts.Debug

\* the calls that use a session
SessionCalls ==
    CallsOf("RunStep") \cup CallsOf("CollectArtifact")
        \cup CallsOf("ExportEnvironment") \cup CallsOf("ExportResult")

\* the calls that need the box to be running
BoxCalls ==
    CallsOf("RunStep") \cup CallsOf("Commit") \cup CallsOf("Push")
        \cup CallsOf("CollectArtifact") \cup CallsOf("Restart")

\* the generation of the container at the time of call i: 1 once the
\* environment is set up, one more for every successful Restart before i
GenerationAt(i) ==
    Cardinality({j \in CallsOf("SetupEnvironment") : j < i /\ calls[j].ok})
        + Cardinality({j \in CallsOf("Restart") : j < i /\ calls[j].ok})

\* C18: every step execution and every artifact collection uses a session
\* obtained after the most recent start or Restart of the box, with the box
\* neither stopped nor cleaned; every after-step runs with the session
\* obtained after Box.Restart; no RunStep, Commit, Push, CollectArtifact or
\* Restart happens after Box.Stop.
C18_SessionsValid ==
    /\ \A i \in SessionCalls :
          /\ calls[i].sess >= 1
          /\ calls[i].sess = GenerationAt(i)
    /\ \A i \in CallsOf("RunStep") :
          (\E j \in CallsOf("Restart") : j < i) =>
              /\ calls[i].sess = 2
              /\ \E j \in CallsOf("GetSession") : j < i /\ calls[j].ok
    /\ \A i \in BoxCalls \cup SessionCalls :
          \A j \in CallsOf("Stop") \cup CallsOf("Clean") : i < j

\* C18 witness: a user step, an artifact collection and an after-step have
\* run and the box has been stopped.
C18_Witness ==
    /\ pc = "done"
    /\ \E i \in CallsOf("RunStep") : calls[i].sess = 1
    /\ CallsOf("CollectArtifact") # {}
    /\ \E i \in CallsOf("RunStep") : calls[i].sess = 2
    /\ CallsOf("Stop") # {}

\* the successful user step executions so far
SuccessfulUserSteps == {i \in FinishedOf(UserStepNameSet) : events[i].success}

\* the user step loop and the commit that follows it are over
StepPhaseOver ==
    prAlloc /\ pc \notin {"steps", "commitInLoop", "commitAfterLoop"}

\* C19: with ShouldCommit, Box.Commit is invoked once after each successful
\* user step and once more after the loop, also when the loop ended on a
\* failed step: k successful steps give k + 1 commits, all before any Push;
\* without ShouldCommit there is no Commit; no Commit directly follows a
\* failed step inside the loop.
C19_CommitCount ==
    /\ ~opts.ShouldCommit => CallsOf("Commit") = {}
    /\ (opts.ShouldCommit /\ prAlloc) =>
          /\ pc \in {"steps", "commitAfterLoop"} =>
                Cardinality(CallsOf("Commit")) = Cardinality(SuccessfulUserSteps)
          /\ pc = "commitInLoop" =>
                /\ ~UserStepFailed
                /\ Cardinality(CallsOf("Commit")) = Cardinality(SuccessfulUserSteps) - 1
          /\ StepPhaseOver =>
                Cardinality(CallsOf("Commit")) = Cardinality(SuccessfulUserSteps) + 1
    /\ \A i \in CallsOf("Commit") : \A j \in CallsOf("Push") : i < j

\* C19 witness: ShouldCommit and ShouldPush, one successful user step, then a
\* failed one, two commits and a push.
C19_Witness ==
    /\ opts.ShouldCommit /\ opts.ShouldPush
    /\ Cardinality(SuccessfulUserSteps) = 1
    /\ UserStepFailed
    /\ Cardinality(CallsOf("Commit")) = 2
    /\ CallsOf("Push") # {}

\* Restart, GetSession and the two exports of the after-step set-up succeeded
AfterSetupOk ==
    /\ \E i \in CallsOf("Restart") : calls[i].ok
    /\ \E i \in CallsOf("GetSession") : calls[i].ok
    /\ \E i \in CallsOf("ExportEnvironment") : calls[i].ok
    /\ \E i \in CallsOf("ExportResult") : calls[i].ok

\* C20: after-steps are attempted whenever the pipeline has after-steps and
\* the step and store phases were reached, whether the build passed or a
\* user step failed; they start only after BuildFinished has been emitted,
\* and the PipelineResult exported to their session is the one whose
\* success BuildFinished announced.
C20_AfterStepsFollowBuildFinished ==
    /\ (prAlloc /\ nAfter > 0 /\ pc \in {"unwind", "done"}) =>
          /\ CallsOf("Restart") # {}
          /\ AfterSetupOk => StartedOf({AfterStepNames[1]}) # {}
    /\ (CallsOf("Restart") # {} \/ StartedOf(AfterStepNameSet) # {}) =>
          /\ nAfter > 0
          /\ Cardinality(EventsOfType("BuildFinished")) = 1
    /\ \A f \in EventsOfType("BuildFinished") :
          \A i \in StartedOf(AfterStepNameSet) : f < i
    /\ exported # <<>> =>
          /\ exported = <<pr>>
          /\ BuildFinishedWith(IF exported[1].Success THEN "passed" ELSE "failed")
    /\ StartedOf(AfterStepNameSet) # {} => exported # <<>>

\* C20 witness: a user step failed, BuildFinished(failed) was emitted and an
\* after-step ran with the failed result exported.
C20_Witness ==
    /\ UserStepFailed
    /\ BuildFinishedWith("failed")
    /\ StartedOf(AfterStepNameSet) # {}
    /\ exported # <<>>
    /\ ~exported[1].Success
    /\ exported[1].FailedStepName = StepDisplayNames[1]

\* ------------------------------------------- claims on the metrics handler

\* the deliveries of BuildStepFinished so far
FinishedDeliveries == {k \in DOMAIN hlog : hlog[k].event = "BuildStepFinished"}

\* the delivery of BuildStepStarted that is the recorded start of the step of
\* delivery k: the latest one before k with no BuildStepFinished of that step
\* in between; 0 when there is none
RecordedStart(k) ==
    LET starts == {j \in 1..(k - 1) :
                      /\ hlog[j].event = "BuildStepStarted"
                      /\ hlog[j].step = hlog[k].step
                      /\ \A f \in (j + 1)..(k - 1) :
                            ~(hlog[f].event = "BuildStepFinished"
                                /\ hlog[f].step = hlog[k].step)}
    IN IF starts = {} THEN 0 ELSE CHOOSE j \in starts : \A i \in starts : i <= j

\* the options name a build or a deploy
OptionsValid == hOpts.BuildID # "" \/ hOpts.DeployID # ""

\* the payload sent by delivery k
PayloadOf(k) == keen[hlog[k].keenLen]

\* C16: a BuildStepFinished whose SafeID has no recorded start (never
\* started, or the start already consumed by an earlier BuildStepFinished)
\* still sends a buildStepFinished payload, with duration 0; one with a
\* recorded start sends the elapsed whole seconds since that start (for
\* options that name a build or a deploy).
C16_FinishedDuration ==
    OptionsValid =>
        \A k \in FinishedDeliveries :
            /\ ~hlog[k].panic
            /\ hlog[k].keenLen = k
            /\ PayloadOf(k).Event = "buildStepFinished"
            /\ PayloadOf(k).Step = hlog[k].step
            /\ PayloadOf(k).Duration =
                  IF RecordedStart(k) = 0
                     THEN <<0>>
                     ELSE <<WholeSeconds(hlog[k].at - hlog[RecordedStart(k)].at)>>

\* C16 witness: a step finished three ticks after its start (one whole
\* second) and finished again, its start already consumed.
C16_Witness ==
    /\ OptionsValid
    /\ Len(hlog) = 3
    /\ hlog[1].event = "BuildStepStarted"
    /\ hlog[2].event = "BuildStepFinished" /\ hlog[2].step = hlog[1].step
    /\ hlog[2].at - hlog[1].at = 3
    /\ PayloadOf(2).Duration = <<1>>
    /\ hlog[3].event = "BuildStepFinished" /\ hlog[3].step = hlog[1].step
    /\ hlog[3].at > hlog[1].at
    /\ PayloadOf(3).Duration = <<0>>

\* C17: a send for options with neither BuildID nor DeployID is, in release
\* mode, logged and skipped (no event added to keen, no panic out of the
\* handler), and raises only in debug mode; with a BuildID the payload goes
\* to "build-events" with pipeline name "build", with only a DeployID to
\* "deploy-events" with "deploy".
C17_InvalidOptionsSkipped ==
    /\ \A k \in DOMAIN hlog :
          IF OptionsValid
             THEN /\ ~hlog[k].panic
                  /\ hlog[k].keenLen = k
             ELSE /\ hlog[k].keenLen = 0
                  /\ hlog[k].panic => hOpts.Debug
    /\ \A i \in DOMAIN keen :
          /\ hOpts.BuildID # "" =>
                keen[i].collection = "build-events" /\ keen[i].PipelineName = "build"
          /\ (hOpts.BuildID = "" /\ hOpts.DeployID # "") =>
                keen[i].collection = "deploy-events" /\ keen[i].PipelineName = "deploy"

\* ------------------------------------------------ claims, third group

\* the explicit buildFinisher.Finish(pr.Success) has just emitted BuildFinished
ResultFinalized == pc = "afterCheck"

\* the store phase was entered
StorePhaseEntered == StartedOf({"store"}) # {}

\* the store step finished as failed
StorePhaseFailed == \E i \in FinishedOf({"store"}) : ~events[i].success

\* the display names of the user steps that finished as failed
FailedUserStepDisplayNames ==
    {StepDisplayNames[k] : k \in {j \in DOMAIN StepNames :
        \E i \in FinishedOf({StepNames[j]}) : ~events[i].success}}

\* C21: when BuildFinished is emitted with the finalized result, pr is
\* consistent: Success = true implies FailedStepName and FailedStepMessage
\* are empty; Success = false implies FailedStepName is the DisplayName of the
\* failed user step when the store phase was not entered, and "store" when
\* the store phase was entered (and it failed), the name of an earlier failed
\* user step being no longer recorded.
C21_FinalResultConsistent ==
    ResultFinalized =>
        /\ pr.Success => pr.FailedStepName = "" /\ pr.FailedStepMessage = ""
        /\ ~pr.Success =>
              IF StorePhaseEntered
                 THEN /\ StorePhaseFailed
                      /\ pr.FailedStepName = "store"
                      /\ pr.FailedStepName \notin FailedUserStepDisplayNames
                 ELSE /\ UserStepFailed
                      /\ FailedUserStepDisplayNames = {pr.FailedStepName}

\* C21 witness: the result is finalized as failed after a user step failed
\* and the store phase was entered and failed: "store" has replaced the
\* user step's name.
C21_Witness ==
    /\ ResultFinalized
    /\ ~pr.Success
    /\ UserStepFailed
    /\ StorePhaseEntered /\ StorePhaseFailed
    /\ pr.FailedStepName = "store"

\* the latest delivery of BuildStepStarted for SafeID id that no
\* BuildStepFinished for id has followed; 0 when there is none
OpenStart(id) ==
    LET open == {j \in DOMAIN hlog :
                    /\ hlog[j].event = "BuildStepStarted"
                    /\ hlog[j].step = id
                    /\ \A f \in (j + 1)..Len(hlog) :
                          ~(hlog[f].event = "BuildStepFinished" /\ hlog[f].step = id)}
    IN IF open = {} THEN 0 ELSE CHOOSE j \in open : \A i \in open : i <= j

\* every BuildStepStarted delivered so far has been followed by a
\* BuildStepFinished for its SafeID
AllStartedFinished == \A id \in SafeIDSet : OpenStart(id) = 0

\* C22: after any sequence of BuildStepStarted and BuildStepFinished
\* deliveries, startStep holds a SafeID exactly when a BuildStepStarted for it
\* was received and no BuildStepFinished for it has followed; so it is empty
\* once every started step has finished, and a second BuildStepStarted for
\* the same SafeID replaces the recorded start (the entry holds the time of
\* the latest start).
C22_StartStepTracksOpenSteps ==
    /\ DOMAIN startStep = {id \in SafeIDSet : OpenStart(id) # 0}
    /\ \A id \in DOMAIN startStep : startStep[id] = hlog[OpenStart(id)].at
    /\ AllStartedFinished => startStep = <<>>

\* C22 witness: a step started at tick 0, started again at tick 2 and
\* finished at tick 3: the duration sent is counted from the second start
\* and the map is empty again.
C22_Witness ==
    /\ OptionsValid
    /\ Len(hlog) = 3
    /\ hlog[1].event = "BuildStepStarted" /\ hlog[1].at = 0
    /\ hlog[2].event = "BuildStepStarted" /\ hlog[2].at = 2
    /\ hlog[2].step = hlog[1].step
    /\ hlog[3].event = "BuildStepFinished" /\ hlog[3].at = 3
    /\ hlog[3].step = hlog[1].step
    /\ PayloadOf(3).Duration = <<0>>
    /\ startStep = <<>>

====
